---- MODULE Spec2Model ----
(***************************************************************************)
(* The request pipeline of the OSS client (OssClientImpl): validation,     *)
(* buildHttpRequest, the retry loop around the transport, the CRC64 check  *)
(* of hasResponseError, error classification, and the default retry        *)
(* strategy.  Text values (names, header values, messages) are sequences   *)
(* of one-character or opaque tokens, so that concatenation, decimal       *)
(* formatting and decimal parsing are computed rather than assumed.        *)
(***************************************************************************)
EXTENDS Integers, Sequences, FiniteSets, TLC

VARIABLES
    config,      \* ClientConfiguration fields read by the pipeline
    enabled,     \* the transport's request latch (DisableRequest/EnableRequest)
    pc,          \* position of the current call
    req,         \* the request of the current call
    http,        \* the HttpRequest built for the current attempt
    attempt,     \* the retry counter of AttemptRequest
    dispatches,  \* how often the transport was invoked for the current call
    delays,      \* the delays slept between attempts of the current call
    resp,        \* the last HttpResponse, after hasResponseError acted on it
    sent,        \* bytes the transport read from the request body
    outcome,     \* the Outcome returned by the current call
    rs           \* inputs and result of a direct retry-strategy evaluation

vars == <<config, enabled, pc, req, http, attempt, dispatches, delays, resp, sent, outcome, rs>>

-----------------------------------------------------------------------------
(* Bounds of the model *)

MaxPayload == 2
MaxAttempt == 6

-----------------------------------------------------------------------------
(* Program constants *)

maxRetries == 3
scaleFactor == 300
ERROR_CLIENT_BASE == 100000
ERROR_CRC_INCONSISTENT == ERROR_CLIENT_BASE + 1
ERROR_REQUEST_DISABLE == ERROR_CLIENT_BASE + 2
ERROR_CURL_BASE == 200000
BucketNameMin == 3
BucketNameMax == 63
ObjectKeyMax == 1023

-----------------------------------------------------------------------------
(* Text *)

Digits == <<"0", "1", "2", "3", "4", "5", "6", "7", "8", "9">>

IsDigit(c) == \E i \in 1..10 : Digits[i] = c

DigitValue(c) == (CHOOSE i \in 1..10 : Digits[i] = c) - 1

\* std::to_string / operator<< of a non-negative integer: its decimal digits.
RECURSIVE to_string(_)
to_string(n) == IF n < 10 THEN <<Digits[n + 1]>>
                ELSE to_string(n \div 10) \o <<Digits[(n % 10) + 1]>>

\* std::strtoull(s, nullptr, 10): the value of the longest prefix of digits,
\* 0 when there is none.
RECURSIVE strtoullFrom(_, _)
strtoullFrom(s, acc) == IF s = <<>> \/ ~IsDigit(Head(s)) THEN acc
                        ELSE strtoullFrom(Tail(s), acc * 10 + DigitValue(Head(s)))

strtoull(s) == strtoullFrom(s, 0)

\* sub occurs in s as a contiguous run
Contains(s, sub) ==
    \E i \in 0..(Len(s) - Len(sub)) : SubSeq(s, i + 1, i + Len(sub)) = sub

Min(a, b) == IF a < b THEN a ELSE b

-----------------------------------------------------------------------------
(* HeaderCollection: a map from header names to values *)

EmptyHeaders == [n \in {} |-> <<>>]

hasHeader(h, n) == n \in DOMAIN h

Header(h, n) == IF n \in DOMAIN h THEN h[n] ELSE <<>>

setHeader(h, n, v) == [x \in (DOMAIN h) \cup {n} |-> IF x = n THEN v ELSE h[x]]

addHeader(h, n, v) == setHeader(h, n, v)

removeHeader(h, n) == [x \in (DOMAIN h) \ {n} |-> h[x]]

CONTENT_LENGTH == "Content-Length"
CONTENT_MD5 == "Content-MD5"
CONTENT_TYPE == "Content-Type"
DATE == "Date"
USER_AGENT == "User-Agent"
RANGE == "Range"
AUTHORIZATION == "Authorization"

-----------------------------------------------------------------------------
(* Requests *)

FLAG_CONTENTMD5 == "CONTENT_MD5"
FLAG_PARAM_IN_PATH == "PARAM_IN_PATH"
FLAG_CHECK_CRC64 == "CHECK_CRC64"

ValidatingOps == {"OssRequest", "OssBucketRequest", "OssObjectRequest", "CompleteMultipartUploadRequest"}
UrlOps == {"ByUrlRequest"}

LowerOrDigit == {"a", "b", "c", "k", "0", "1"}

\* IsValidBucketName: 3..63 characters, lowercase letters, digits and hyphen,
\* no hyphen first or last.
IsValidBucketName(b) ==
    /\ Len(b) >= BucketNameMin
    /\ Len(b) <= BucketNameMax
    /\ \A i \in 1..Len(b) : b[i] \in LowerOrDigit \cup {"-"}
    /\ b[1] # "-"
    /\ b[Len(b)] # "-"

\* IsValidObjectKey: 1..1023 bytes, not starting with / or \ .
IsValidObjectKey(k) ==
    /\ Len(k) >= 1
    /\ Len(k) <= ObjectKeyMax
    /\ k[1] \notin {"/", "\\"}

OssRequest_validate(r) == "OK"

OssBucketRequest_validate(r) ==
    IF ~IsValidBucketName(r.bucket) THEN "ARG_ERROR_BUCKET_NAME" ELSE "OK"

OssObjectRequest_validate(r) ==
    IF ~IsValidBucketName(r.bucket) THEN "ARG_ERROR_BUCKET_NAME"
    ELSE IF ~IsValidObjectKey(r.key) THEN "ARG_ERROR_OBJECT_NAME"
    ELSE "OK"

CompleteMultipartUploadRequest_validate(r) ==
    LET ret == OssObjectRequest_validate(r) IN
    IF ret # "OK" THEN ret
    ELSE IF r.parts = 0 THEN "ARG_ERROR_MULTIPARTUPLOAD_PARTLIST_EMPTY"
    ELSE "OK"

\* request.validate(): the override of the request's class
validate(r) ==
    CASE r.op = "OssRequest" -> OssRequest_validate(r)
      [] r.op = "OssBucketRequest" -> OssBucketRequest_validate(r)
      [] r.op = "OssObjectRequest" -> OssObjectRequest_validate(r)
      [] r.op = "CompleteMultipartUploadRequest" -> CompleteMultipartUploadRequest_validate(r)
      [] OTHER -> "OK"

\* GetModelErrorMsg(code)
validateMessage(ret) == <<"ModelErrorMsg", ret>>

\* OssRequest::Headers(): the special headers, with Content-Type defaulted
Headers(r) ==
    IF ~hasHeader(r.specialHeaders, CONTENT_TYPE)
    THEN setHeader(r.specialHeaders, CONTENT_TYPE, <<"application/xml">>)
    ELSE r.specialHeaders

Parameters(r) == r.specialParameters

NoBody == [null |-> TRUE]

\* OssRequest::Body(): a fresh stream over the payload, null when it is empty
Body(r) == IF r.payload = <<>> THEN NoBody
           ELSE [null |-> FALSE, data |-> r.payload, pos |-> 0]

\* GetIOStreamLength: the size of the stream by seek/tell; the read position is kept
GetIOStreamLength(body) == Len(body.data)

\* ComputeContentMD5: the digest of the stream's bytes; the read position is kept
ComputeContentMD5(body) == <<"md5">> \o body.data

-----------------------------------------------------------------------------
(* buildHttpRequest *)

NoUrl == [kind |-> "none"]

\* std::make_shared<HttpRequest>(method)
\* A new HttpRequest.  signed, resource and getCredentials record what
\* addSignInfo did for it: the canonical string it signed, the resource it
\* passed to SignUtils::build and its calls of getCredentials().
NewHttpRequest(method) ==
    [method |-> method, headers |-> EmptyHeaders, body |-> NoBody,
     url |-> NoUrl, checkCrc64 |-> FALSE, signed |-> <<>>,
     resource |-> <<>>, getCredentials |-> 0]

\* ToGmtTime(std::time(nullptr)), the clock read at build time
ToGmtTime(t) == <<"GMT">> \o to_string(t)

addHeaders(h, headers, t) ==
    LET h1 == [n \in (DOMAIN h.headers) \cup (DOMAIN headers) |->
                  IF n \in DOMAIN headers THEN headers[n] ELSE h.headers[n]]
        h2 == addHeader(h1, USER_AGENT, config.userAgent)
        h3 == IF ~hasHeader(h2, DATE) THEN addHeader(h2, DATE, ToGmtTime(t)) ELSE h2
    IN [h EXCEPT !.headers = h3]

\* addBody that leaves a caller's Content-Length on a body-less request
addBody_KeepsCallerLength(h, body, contentMd5) ==
    LET h1 == IF body.null /\ h.method \in {"GET", "POST"}
              THEN setHeader(h.headers, CONTENT_LENGTH, <<"0">>)
              ELSE h.headers
        h2 == IF ~body.null /\ ~hasHeader(h1, CONTENT_LENGTH)
              THEN setHeader(h1, CONTENT_LENGTH, to_string(GetIOStreamLength(body)))
              ELSE h1
        h3 == IF contentMd5 /\ ~body.null /\ ~hasHeader(h2, CONTENT_MD5)
              THEN setHeader(h2, CONTENT_MD5, ComputeContentMD5(body))
              ELSE h2
    IN [h EXCEPT !.headers = h3, !.body = body]

\* addBody that measures the stream after the digest has read it to its end
addBody_LengthAfterMd5(h, body, contentMd5) ==
    LET h1 == IF body.null
              THEN IF h.method \in {"GET", "POST"}
                   THEN setHeader(h.headers, CONTENT_LENGTH, <<"0">>)
                   ELSE removeHeader(h.headers, CONTENT_LENGTH)
              ELSE h.headers
        md5 == contentMd5 /\ ~body.null /\ ~hasHeader(h1, CONTENT_MD5)
        h2 == IF md5 THEN setHeader(h1, CONTENT_MD5, ComputeContentMD5(body)) ELSE h1
        h3 == IF ~body.null /\ ~hasHeader(h2, CONTENT_LENGTH)
              THEN setHeader(h2, CONTENT_LENGTH,
                             to_string(IF md5 THEN 0 ELSE GetIOStreamLength(body)))
              ELSE h2
    IN [h EXCEPT !.headers = h3, !.body = body]

\* addBody that never computes the digest
addBody_NoMd5(h, body, contentMd5) ==
    LET h1 == IF body.null
              THEN IF h.method \in {"GET", "POST"}
                   THEN setHeader(h.headers, CONTENT_LENGTH, <<"0">>)
                   ELSE removeHeader(h.headers, CONTENT_LENGTH)
              ELSE h.headers
        h2 == IF ~body.null /\ ~hasHeader(h1, CONTENT_LENGTH)
              THEN setHeader(h1, CONTENT_LENGTH, to_string(GetIOStreamLength(body)))
              ELSE h1
    IN [h EXCEPT !.headers = h2, !.body = body]

addBody(h, body, contentMd5) ==
    LET h1 == IF body.null
              THEN IF h.method \in {"GET", "POST"}
                   THEN setHeader(h.headers, CONTENT_LENGTH, <<"0">>)
                   ELSE removeHeader(h.headers, CONTENT_LENGTH)
              ELSE h.headers
        h2 == IF ~body.null /\ ~hasHeader(h1, CONTENT_LENGTH)
              THEN setHeader(h1, CONTENT_LENGTH, to_string(GetIOStreamLength(body)))
              ELSE h1
        h3 == IF contentMd5 /\ ~body.null /\ ~hasHeader(h2, CONTENT_MD5)
              THEN setHeader(h2, CONTENT_MD5, ComputeContentMD5(body))
              ELSE h2
    IN [h EXCEPT !.headers = h3, !.body = body]

\* the header names in the order the header map iterates them
HeaderOrder == <<"Authorization", "Content-Length", "Content-MD5", "Content-Type", "Date",
                 "Expires", "Range", "User-Agent", "x-oss-meta-a", "x-oss-security-token">>

\* the parameter names in the order the parameter map iterates them
ParamOrder == <<"Expires", "OSSAccessKeyId", "Signature", "acl", "prefix",
                "security-token", "uploadId", "uploads">>

SubResources == {"acl", "security-token", "uploadId", "uploads"}

IsOssHeader(n) == n \in {"x-oss-meta-a", "x-oss-security-token"}

RECURSIVE CanonicalHeadersFrom(_, _)
CanonicalHeadersFrom(headers, i) ==
    IF i > Len(HeaderOrder) THEN <<>>
    ELSE LET n == HeaderOrder[i] IN
         (IF n \in DOMAIN headers /\ IsOssHeader(n)
          THEN <<n, ":">> \o headers[n] \o <<"\n">>
          ELSE <<>>)
         \o CanonicalHeadersFrom(headers, i + 1)

RECURSIVE SubResourcesFrom(_, _)
SubResourcesFrom(parameters, i) ==
    IF i > Len(ParamOrder) THEN <<>>
    ELSE LET n == ParamOrder[i] IN
         (IF n \in DOMAIN parameters /\ n \in SubResources
          THEN IF parameters[n] = <<>>
               THEN <<"&", n>>
               ELSE <<"&", n, "=">> \o parameters[n]
          ELSE <<>>)
         \o SubResourcesFrom(parameters, i + 1)

\* SignUtils::build followed by SignUtils::CanonicalString
CanonicalString(method, resource, date, headers, parameters) ==
    LET sub == SubResourcesFrom(parameters, 1) IN
    <<method, "\n">>
    \o Header(headers, CONTENT_MD5) \o <<"\n">>
    \o Header(headers, CONTENT_TYPE) \o <<"\n">>
    \o date \o <<"\n">>
    \o CanonicalHeadersFrom(headers, 1)
    \o resource
    \o (IF sub # <<>> THEN <<"?">> \o Tail(sub) ELSE <<>>)

\* HmacSha1Signer::generate
generate(canonical, secret) == <<"HMAC[">> \o canonical \o <<"|">> \o secret \o <<"]">>

\* addSignInfo that sets the security token header after it has signed
addSignInfo_TokenAfterSigning(h, r) ==
    LET credentials == config.credentials
        parameters == Parameters(r)
        resource == <<"/">>
                    \o (IF r.bucket # <<>> THEN r.bucket \o <<"/">> ELSE <<>>)
                    \o (IF r.key # <<>> THEN r.key ELSE <<>>)
        date == Header(h.headers, DATE)
        canonical == CanonicalString(h.method, resource, date, h.headers, parameters)
        signature == generate(canonical, credentials.AccessKeySecret)
        authValue == <<"OSS ">> \o credentials.AccessKeyId \o <<":">> \o signature
        h1 == addHeader(h.headers, AUTHORIZATION, authValue)
        h2 == IF credentials.SessionToken # <<>>
              THEN addHeader(h1, "x-oss-security-token", credentials.SessionToken)
              ELSE h1
    IN [h EXCEPT !.headers = h2, !.signed = canonical, !.resource = resource,
                 !.getCredentials = @ + 1]

\* addSignInfo that appends the key only below a bucket
addSignInfo_KeyOnlyWithBucket(h, r) ==
    LET credentials == config.credentials
        h1 == IF credentials.SessionToken # <<>>
              THEN addHeader(h.headers, "x-oss-security-token", credentials.SessionToken)
              ELSE h.headers
        parameters == Parameters(r)
        resource == <<"/">>
                    \o (IF r.bucket # <<>> THEN r.bucket \o <<"/">> \o r.key ELSE <<>>)
        date == Header(h1, DATE)
        canonical == CanonicalString(h.method, resource, date, h1, parameters)
        signature == generate(canonical, credentials.AccessKeySecret)
        authValue == <<"OSS ">> \o credentials.AccessKeyId \o <<":">> \o signature
    IN [h EXCEPT !.headers = addHeader(h1, AUTHORIZATION, authValue),
                 !.signed = canonical, !.resource = resource,
                 !.getCredentials = @ + 1]

addSignInfo(h, r) ==
    LET credentials == config.credentials
        h1 == IF credentials.SessionToken # <<>>
              THEN addHeader(h.headers, "x-oss-security-token", credentials.SessionToken)
              ELSE h.headers
        parameters == Parameters(r)
        resource == <<"/">>
                    \o (IF r.bucket # <<>> THEN r.bucket \o <<"/">> ELSE <<>>)
                    \o (IF r.key # <<>> THEN r.key ELSE <<>>)
        date == Header(h1, DATE)
        canonical == CanonicalString(h.method, resource, date, h1, parameters)
        signature == generate(canonical, credentials.AccessKeySecret)
        authValue == <<"OSS ">> \o credentials.AccessKeyId \o <<":">> \o signature
    IN [h EXCEPT !.headers = addHeader(h1, AUTHORIZATION, authValue),
                 !.signed = canonical, !.resource = resource,
                 !.getCredentials = @ + 1]

\* UrlEncode: unreserved characters are kept, the others percent-encoded
UrlEncode(s) == [i \in 1..Len(s) |-> IF s[i] = "/" THEN "%2F"
                                      ELSE IF s[i] = " " THEN "%20" ELSE s[i]]

\* CombineHostString: virtual-hosted unless CNAME or the bucket is not a valid name
CombineHostString(endpoint, bucket, isCname) ==
    IF ~isCname /\ IsValidBucketName(bucket)
    THEN bucket \o <<".">> \o endpoint
    ELSE endpoint

\* CombinePathString
CombinePathString(endpoint, bucket, key) == <<"/">> \o key

RECURSIVE QueryFrom(_, _)
QueryFrom(parameters, i) ==
    IF i > Len(ParamOrder) THEN <<>>
    ELSE LET n == ParamOrder[i] IN
         (IF n \in DOMAIN parameters
          THEN IF parameters[n] = <<>>
               THEN <<"&">> \o UrlEncode(<<n>>)
               ELSE <<"&">> \o UrlEncode(<<n>>) \o <<"=">> \o UrlEncode(parameters[n])
          ELSE <<>>)
         \o QueryFrom(parameters, i + 1)

\* addUrl that writes only the sub-resources into the query
addUrl_OnlySubResources(h, endpoint, r) ==
    LET host == CombineHostString(endpoint, r.bucket, config.isCname)
        path == CombinePathString(endpoint, r.bucket, r.key)
        parameters == Parameters(r)
        sub == SubResourcesFrom(parameters, 1)
    IN [h EXCEPT !.url = [kind |-> "composed", host |-> host, path |-> path,
                          query |-> IF sub # <<>> THEN Tail(sub) ELSE <<>>]]

addUrl(h, endpoint, r) ==
    LET host == CombineHostString(endpoint, r.bucket, config.isCname)
        path == CombinePathString(endpoint, r.bucket, r.key)
        parameters == Parameters(r)
        query == IF parameters # EmptyHeaders THEN Tail(QueryFrom(parameters, 1)) ELSE <<>>
    IN [h EXCEPT !.url = [kind |-> "composed", host |-> host, path |-> path, query |-> query]]

\* CombineQueryString
CombineQueryString(parameters) ==
    IF parameters # EmptyHeaders THEN Tail(QueryFrom(parameters, 1)) ELSE <<>>

\* addOther that does not look for a Range header
addOther_IgnoresRange(h, r) ==
    IF config.enableCrc64 /\ FLAG_CHECK_CRC64 \in r.flags
    THEN [h EXCEPT !.checkCrc64 = TRUE]
    ELSE h

addOther(h, r) ==
    LET checkCRC64 == FLAG_CHECK_CRC64 \in r.flags IN
    IF config.enableCrc64 /\ checkCRC64 /\ ~hasHeader(h.headers, RANGE)
    THEN [h EXCEPT !.checkCrc64 = TRUE]
    ELSE h

\* buildHttpRequest that signs a request with PARAM_IN_PATH as well
buildHttpRequest_SignsUrlRequest(endpoint, msg, method, t) ==
    LET calcContentMD5 == FLAG_CONTENTMD5 \in msg.flags
        paramInPath == FLAG_PARAM_IN_PATH \in msg.flags
        h0 == NewHttpRequest(method)
        h1 == addHeaders(h0, Headers(msg), t)
        h2 == addBody(h1, Body(msg), calcContentMD5)
        h3 == IF paramInPath
              THEN [addSignInfo(h2, msg) EXCEPT !.url = [kind |-> "verbatim", path |-> msg.path]]
              ELSE addUrl(addSignInfo(h2, msg), endpoint, msg)
    IN addOther(h3, msg)

buildHttpRequest(endpoint, msg, method, t) ==
    LET calcContentMD5 == FLAG_CONTENTMD5 \in msg.flags
        paramInPath == FLAG_PARAM_IN_PATH \in msg.flags
        h0 == NewHttpRequest(method)
        h1 == addHeaders(h0, Headers(msg), t)
        h2 == addBody(h1, Body(msg), calcContentMD5)
        h3 == IF paramInPath
              THEN [h2 EXCEPT !.url = [kind |-> "verbatim", path |-> msg.path]]
              ELSE addUrl(addSignInfo(h2, msg), endpoint, msg)
    IN addOther(h3, msg)

-----------------------------------------------------------------------------
(* DefaultRetryStrategy *)

CurlRetryable == {7, 18, 23, 28, 52, 55, 56}

\* shouldRetry with the whole of 500..599 retried
shouldRetry_Through599(error, attemptedRetries) ==
    IF attemptedRetries >= maxRetries THEN FALSE
    ELSE IF error.Status > 499 /\ error.Status <= 599 THEN TRUE
    ELSE error.Status \in {ERROR_CURL_BASE + c : c \in CurlRetryable}

\* shouldRetry without the limit on the attempts
shouldRetry_NoLimit(error, attemptedRetries) ==
    IF error.Status > 499 /\ error.Status < 599 THEN TRUE
    ELSE error.Status \in {ERROR_CURL_BASE + c : c \in CurlRetryable}

\* shouldRetry with every status above 499 retried
shouldRetry_AnyAbove499(error, attemptedRetries) ==
    IF attemptedRetries >= maxRetries THEN FALSE
    ELSE error.Status > 499

shouldRetry(error, attemptedRetries) ==
    IF attemptedRetries >= maxRetries THEN FALSE
    ELSE LET responseCode == error.Status IN
         IF responseCode > 499 /\ responseCode < 599 THEN TRUE
         ELSE responseCode \in {ERROR_CURL_BASE + c : c \in CurlRetryable}

\* calcDealyTimeMs shifting 2 instead of 1
calcDealyTimeMs_Shift2(error, attemptedRetries) == (2 ^ (attemptedRetries + 1)) * scaleFactor

\* (1 << attemptedRetries) * m_scaleFactor: the shift is an int shift and the
\* product a long product; both are exact for the attempts of the model
\* (attemptedRetries <= MaxAttempt + 1 < 22).
calcDealyTimeMs(error, attemptedRetries) == (2 ^ attemptedRetries) * scaleFactor

-----------------------------------------------------------------------------
(* Responses and errors *)

X_OSS_REQUEST_ID == "x-oss-request-id"
X_OSS_HASH_CRC64 == "x-oss-hash-crc64ecma"

NoText == [kind |-> "empty"]

Text(t) == [kind |-> "text", text |-> t]

\* Client::hasResponseError: a status of 300 or more is an error
BASE_hasResponseError(response) == response.status >= 300

\* hasResponseError that compares whenever the header is there
hasResponseError_IgnoresFlag(response) ==
    IF BASE_hasResponseError(response) THEN [error |-> TRUE, response |-> response]
    ELSE IF hasHeader(response.headers, X_OSS_HASH_CRC64)
            /\ response.request.crc64Result # strtoull(Header(response.headers, X_OSS_HASH_CRC64))
    THEN [error |-> TRUE,
          response |-> [response EXCEPT
              !.status = ERROR_CRC_INCONSISTENT,
              !.statusMsg = Text(
                  <<"Crc64 validation failed. Expected hash:">>
                  \o to_string(strtoull(Header(response.headers, X_OSS_HASH_CRC64)))
                  \o <<" not equal to calculated hash:">> \o to_string(response.request.crc64Result)
                  \o <<". Transferd bytes:">> \o to_string(response.request.transferedBytes)
                  \o <<". RequestId:">> \o Header(response.headers, X_OSS_REQUEST_ID))]]
    ELSE [error |-> FALSE, response |-> response]

hasResponseError(response) ==
    IF BASE_hasResponseError(response) THEN [error |-> TRUE, response |-> response]
    ELSE IF response.request.checkCrc64 /\ hasHeader(response.headers, X_OSS_HASH_CRC64)
    THEN LET clientCrc64 == response.request.crc64Result
             serverCrc64 == strtoull(Header(response.headers, X_OSS_HASH_CRC64))
         IN IF clientCrc64 # serverCrc64
            THEN [error |-> TRUE,
                  response |-> [response EXCEPT
                      !.status = ERROR_CRC_INCONSISTENT,
                      !.statusMsg = Text(
                          <<"Crc64 validation failed. Expected hash:">> \o to_string(serverCrc64)
                          \o <<" not equal to calculated hash:">> \o to_string(clientCrc64)
                          \o <<". Transferd bytes:">> \o to_string(response.request.transferedBytes)
                          \o <<". RequestId:">> \o Header(response.headers, X_OSS_REQUEST_ID))]]
            ELSE [error |-> FALSE, response |-> response]
    ELSE [error |-> FALSE, response |-> response]

\* Client::buildError: the Error of a failed response.  An HTTP error status
\* carries the response body as its message, any other status the
\* transport-level code and message.
Client_buildError(response) ==
    IF response.status > 299 /\ response.status < 600
    THEN [Status |-> response.status,
          Code |-> <<"ServerError:">> \o to_string(response.status),
          Message |-> response.body,
          Headers |-> response.headers]
    ELSE [Status |-> response.status,
          Code |-> <<"ClientError:">> \o to_string(response.status),
          Message |-> response.statusMsg,
          Headers |-> response.headers]

ErrorName == <<"E", "r", "r", "o", "r">>

\* !std::strncmp("Error", root->Name(), 5)
RootIsError(name) == Len(name) >= 5 /\ SubSeq(name, 1, 5) = ErrorName

EnvelopeChildren == {"Code", "Message", "RequestId", "HostId"}

\* XMLElement::GetText(): the text of the element, a null pointer when the
\* element holds no text
GetTextIsNull(children, n) == n \in DOMAIN children /\ children[n] = <<>>

\* node ? node->GetText() : "", for a child that is missing or holds text
ChildText(children, n) == IF n \in DOMAIN children THEN children[n] ELSE <<>>

\* buildError reads an envelope child without text: GetText() is a null
\* pointer and the std::string handed to the setter is constructed from it
ConstructsStringFromNull(error) ==
    /\ error.Status > 299 /\ error.Status < 600
    /\ error.Message.kind = "xml"
    /\ RootIsError(error.Message.root)
    /\ \E n \in EnvelopeChildren : GetTextIsNull(error.Message.children, n)

\* buildError that lets the x-oss-request-id header replace the envelope's id
buildError_HeaderFirst(error) ==
    LET err ==
          IF error.Status > 299 /\ error.Status < 600 /\ error.Message.kind # "empty"
          THEN IF error.Message.kind = "xml"
               THEN IF RootIsError(error.Message.root)
                    THEN [Code |-> ChildText(error.Message.children, "Code"),
                          Message |-> Text(ChildText(error.Message.children, "Message")),
                          RequestId |-> ChildText(error.Message.children, "RequestId"),
                          Host |-> ChildText(error.Message.children, "HostId")]
                    ELSE [Code |-> <<"ParseXMLError">>,
                          Message |-> [kind |-> "prefixed",
                                       prefix |-> "Xml format invalid, root node name is not Error. the content is:\n",
                                       content |-> error.Message],
                          RequestId |-> <<>>,
                          Host |-> <<>>]
               ELSE [Code |-> <<"ParseXMLError:">> \o to_string(error.Message.xml_err),
                     Message |-> Text(<<"ErrorIDToName">> \o to_string(error.Message.xml_err)),
                     RequestId |-> <<>>,
                     Host |-> <<>>]
          ELSE [Code |-> error.Code, Message |-> error.Message,
                RequestId |-> <<>>, Host |-> <<>>]
    IN IF hasHeader(error.Headers, X_OSS_REQUEST_ID)
       THEN [err EXCEPT !.RequestId = error.Headers[X_OSS_REQUEST_ID]]
       ELSE err

\* buildError that does not parse the body of a failed response
buildError_NoParse(error) ==
    LET err == [Code |-> error.Code, Message |-> error.Message,
                RequestId |-> <<>>, Host |-> <<>>]
    IN IF err.RequestId = <<>> /\ hasHeader(error.Headers, X_OSS_REQUEST_ID)
       THEN [err EXCEPT !.RequestId = error.Headers[X_OSS_REQUEST_ID]]
       ELSE err

buildError(error) ==
    LET err ==
          IF error.Status > 299 /\ error.Status < 600 /\ error.Message.kind # "empty"
          THEN IF error.Message.kind = "xml"
               THEN IF RootIsError(error.Message.root)
                    THEN [Code |-> ChildText(error.Message.children, "Code"),
                          Message |-> Text(ChildText(error.Message.children, "Message")),
                          RequestId |-> ChildText(error.Message.children, "RequestId"),
                          Host |-> ChildText(error.Message.children, "HostId")]
                    ELSE [Code |-> <<"ParseXMLError">>,
                          Message |-> [kind |-> "prefixed",
                                       prefix |-> "Xml format invalid, root node name is not Error. the content is:\n",
                                       content |-> error.Message],
                          RequestId |-> <<>>,
                          Host |-> <<>>]
               ELSE [Code |-> <<"ParseXMLError:">> \o to_string(error.Message.xml_err),
                     Message |-> Text(<<"ErrorIDToName">> \o to_string(error.Message.xml_err)),
                     RequestId |-> <<>>,
                     Host |-> <<>>]
          ELSE [Code |-> error.Code, Message |-> error.Message,
                RequestId |-> <<>>, Host |-> <<>>]
    IN IF err.RequestId = <<>> /\ hasHeader(error.Headers, X_OSS_REQUEST_ID)
       THEN [err EXCEPT !.RequestId = error.Headers[X_OSS_REQUEST_ID]]
       ELSE err

buildResult(httpResponse) ==
    [RequestId |-> Header(httpResponse.headers, X_OSS_REQUEST_ID),
     payload |-> httpResponse.body,
     responseCode |-> httpResponse.status,
     headerCollection |-> httpResponse.headers]

-----------------------------------------------------------------------------
(* Inputs of the model *)

Opt(v) == [has |-> TRUE, v |-> v]
None == [has |-> FALSE]

WithOpt(h, n, o) == IF o.has THEN setHeader(h, n, o.v) ELSE h

Payloads == {p \in UNION {[1..n -> {"x"}] : n \in 0..MaxPayload} : TRUE}

Endpoint == <<"oss.example.com">>

DefaultCredentials ==
    [AccessKeyId |-> <<"id">>, AccessKeySecret |-> <<"secret">>, SessionToken |-> <<>>]

Config(crc, cname, token) ==
    [userAgent |-> <<"aliyun-sdk-cpp/">>, isCname |-> cname, enableCrc64 |-> crc,
     endpoint |-> Endpoint,
     credentials |-> [DefaultCredentials EXCEPT !.SessionToken = token]]

Request(op, bucket, key, flags, headers, payload, method, parts, seekable) ==
    [op |-> op, bucket |-> bucket, key |-> key, flags |-> flags,
     specialHeaders |-> headers, specialParameters |-> EmptyHeaders,
     payload |-> payload, method |-> method, parts |-> parts,
     seekable |-> seekable, path |-> <<"http://host/signed">>]

\* CompleteMultipartUploadRequest(bucket, key, partList, uploadId); its
\* specialParameters hold the uploadId
CompleteMultipartUploadRequest(bucket, key, parts, uploadId) ==
    [op |-> "CompleteMultipartUploadRequest", bucket |-> bucket, key |-> key, flags |-> {},
     specialHeaders |-> EmptyHeaders,
     specialParameters |-> setHeader(EmptyHeaders, "uploadId", uploadId),
     payload |-> <<"x">>, method |-> "POST", parts |-> parts, uploadId |-> uploadId,
     seekable |-> TRUE, path |-> <<"http://host/signed">>]

NoReq == [op |-> "none"]
NoHttp == [method |-> "none"]
NoResp == [kind |-> "none"]
NoOutcome == [kind |-> "none"]
NoRs == [kind |-> "none"]

GoodBucket == <<"a", "b", "c">>
Buckets == {<<>>, <<"A", "B">>, <<"-", "a", "b">>, GoodBucket}
Keys == {<<>>, <<"k">>, <<"/", "k">>}
RangeHeader == setHeader(EmptyHeaders, RANGE, <<"bytes=0-1">>)

PresignRequests ==
    {[op |-> "GeneratePresignedUrlRequest", bucket |-> b, key |-> k, method |-> "GET",
      specialHeaders |-> setHeader(EmptyHeaders, "Expires", <<"1700000000">>),
      specialParameters |-> p] :
        b \in {GoodBucket, <<"A", "B">>}, k \in {<<>>, <<"k">>},
        p \in {EmptyHeaders, setHeader(EmptyHeaders, "prefix", <<"p">>),
               setHeader(EmptyHeaders, "security-token", <<"other">>),
               setHeader(EmptyHeaders, "Signature", <<"forged">>),
               setHeader(setHeader(EmptyHeaders, "Expires", <<"1">>),
                         "OSSAccessKeyId", <<"someone">>)}}

PipelineRequests ==
    {Request("OssRequest", <<>>, <<>>, {}, EmptyHeaders, <<>>, "GET", 0, TRUE)}
    \cup {Request("OssBucketRequest", b, <<>>, {}, EmptyHeaders, p, "PUT", 0, TRUE) :
            b \in Buckets, p \in {<<>>, <<"x">>}}
    \cup {Request("OssObjectRequest", b, k, f, h, <<>>, "GET", 0, TRUE) :
            b \in {GoodBucket, <<"A", "B">>}, k \in Keys,
            f \in {{}, {FLAG_CHECK_CRC64}}, h \in {EmptyHeaders, RangeHeader}}
    \cup {Request("OssObjectRequest", GoodBucket, <<"k">>, {FLAG_CHECK_CRC64, FLAG_CONTENTMD5},
                  EmptyHeaders, <<"x">>, "PUT", 0, sk) : sk \in BOOLEAN}
    \cup {CompleteMultipartUploadRequest(b, k, n, u) :
            b \in {GoodBucket, <<"A", "B">>}, k \in {<<>>, <<"k">>}, n \in 0..1,
            u \in {<<>>, <<"up">>}}
    \cup {Request("ByUrlRequest", <<>>, <<>>, {FLAG_PARAM_IN_PATH}, EmptyHeaders, p, m, 0, TRUE) :
            p \in {<<>>}, m \in {"GET"}}
    \cup {Request("ByUrlRequest", <<>>, <<>>, {FLAG_PARAM_IN_PATH}, EmptyHeaders, <<"x">>, "PUT", 0, TRUE)}

ErrorEnvelope ==
    [kind |-> "xml", root |-> ErrorName,
     children |-> [n \in {"Code", "Message", "RequestId", "HostId"} |->
                     CASE n = "Code" -> <<"NoSuchKey">>
                       [] n = "Message" -> <<"The key does not exist.">>
                       [] n = "RequestId" -> <<"req-body">>
                       [] OTHER -> <<"host">>]]

OtherRootEnvelope ==
    [kind |-> "xml", root |-> <<"O", "t", "h", "e", "r">>, children |-> EmptyHeaders]

\* a well-formed body whose root name only starts with "Error"
PrefixRootEnvelope ==
    [kind |-> "xml", root |-> <<"E", "r", "r", "o", "r", "s">>,
     children |-> setHeader(EmptyHeaders, "Code", <<"Listed">>)]

\* an envelope without Code, RequestId and HostId
MessageOnlyEnvelope ==
    [kind |-> "xml", root |-> ErrorName,
     children |-> setHeader(EmptyHeaders, "Message", <<"m">>)]

\* an envelope whose Code element holds no text: <Code/>
EmptyCodeEnvelope ==
    [kind |-> "xml", root |-> ErrorName,
     children |-> setHeader(setHeader(EmptyHeaders, "Code", <<>>), "Message", <<"m">>)]

NotXmlBody == [kind |-> "notxml", xml_err |-> 7]

CrcResults == {5, 7}

\* what the transport can hand back for the request h
Responses(h) ==
    {[status |-> 200, statusMsg |-> Text(<<"OK">>),
      headers |-> WithOpt(WithOpt(EmptyHeaders, X_OSS_HASH_CRC64, c), X_OSS_REQUEST_ID, r),
      body |-> NoText,
      request |-> [checkCrc64 |-> h.checkCrc64, crc64Result |-> x, transferedBytes |-> 2]] :
        c \in {None, Opt(<<"5">>), Opt(<<"7", "x">>)},
        r \in {None, Opt(<<"req-hdr">>)},
        x \in CrcResults}
    \cup
    {[status |-> st[1], statusMsg |-> Text(<<"status">>),
      headers |-> WithOpt(EmptyHeaders, X_OSS_REQUEST_ID, r),
      body |-> st[2],
      request |-> [checkCrc64 |-> h.checkCrc64, crc64Result |-> 5, transferedBytes |-> 0]] :
        st \in {<<404, NoText>>, <<404, ErrorEnvelope>>, <<404, OtherRootEnvelope>>,
                <<404, NotXmlBody>>, <<404, PrefixRootEnvelope>>, <<404, MessageOnlyEnvelope>>,
                <<404, EmptyCodeEnvelope>>, <<503, NoText>>, <<503, ErrorEnvelope>>,
                <<599, NoText>>},
        r \in {None, Opt(<<"req-hdr">>)}}
    \cup
    {[status |-> ERROR_CURL_BASE + c, statusMsg |-> Text(<<"curl error">>),
      headers |-> WithOpt(EmptyHeaders, X_OSS_REQUEST_ID, r),
      body |-> NoText,
      request |-> [checkCrc64 |-> h.checkCrc64, crc64Result |-> 5, transferedBytes |-> 0]] :
        c \in {6, 7}, r \in {None, Opt(<<"req-hdr">>)}}

\* the bytes the transport reads from the request body: it drains the stream,
\* or stops at the announced Content-Length when that comes first
TransportRead(h) ==
    IF h.body.null THEN {0}
    ELSE LET remaining == Len(h.body.data) - h.body.pos
             announced == strtoull(Header(h.headers, CONTENT_LENGTH))
         IN {remaining, Min(announced, remaining)}

-----------------------------------------------------------------------------
(* The pipeline: MakeRequest and the retry loop of AttemptRequest *)

OssError(code, message) ==
    [Code |-> code, Message |-> message, RequestId |-> <<>>, Host |-> <<>>]

Failure(err) == [kind |-> "failure", error |-> err]

\* the call does not return: an exception leaves it, or the process ends
Aborted(how) == [kind |-> "abort", how |-> how]

\* what MakeRequest makes of a failed AttemptRequest: the OssError of
\* buildError, or, when buildError constructs a std::string from a null
\* pointer, whatever that undefined construction does in the build (the
\* std::logic_error of libstdc++, or a fault in strlen)
MakeRequestError(error) ==
    IF ConstructsStringFromNull(error)
    THEN {Aborted("std::logic_error"), Aborted("fault")}
    ELSE {Failure(buildError(error))}
Success(res) == [kind |-> "success", result |-> res]

DisabledError ==
    [Status |-> ERROR_REQUEST_DISABLE, Code |-> <<"ClientDisabled">>,
     Message |-> Text(<<"Disable all requests by upper.">>), Headers |-> EmptyHeaders]

\* One attempt: build the HttpRequest for attempt n and hand it to the
\* transport, unless the request latch is off.
AttemptOnceRequest(r, n) ==
    LET h == buildHttpRequest(config.endpoint, r, r.method, n) IN
    /\ http' = h
    /\ IF ~enabled
       THEN /\ outcome' = Failure(buildError(DisabledError))
            /\ pc' = "done"
            /\ UNCHANGED <<dispatches, sent>>
       ELSE /\ dispatches' = dispatches + 1
            /\ sent' \in TransportRead(h)
            /\ pc' = "inflight"
            /\ UNCHANGED outcome

\* MakeRequest with the test of validate's result inverted
MakeRequest_InvertedCheck(r) ==
    /\ pc = "idle"
    /\ r.op \in ValidatingOps
    /\ req' = r
    /\ attempt' = 0
    /\ IF validate(r) = "OK"
       THEN /\ outcome' = Failure(OssError(<<"ValidateError">>, Text(validateMessage("OK"))))
            /\ pc' = "done"
            /\ UNCHANGED <<http, dispatches, sent>>
       ELSE AttemptOnceRequest(r, 0)
    /\ UNCHANGED <<config, enabled, delays, resp, rs>>

\* MakeRequest that asks the client whether requests are disabled before it
\* validates
MakeRequest_LatchBeforeValidate(r) ==
    /\ pc = "idle"
    /\ r.op \in ValidatingOps
    /\ req' = r
    /\ attempt' = 0
    /\ LET ret == validate(r) IN
       IF ret # "OK" /\ enabled
       THEN /\ outcome' = Failure(OssError(<<"ValidateError">>, Text(validateMessage(ret))))
            /\ pc' = "done"
            /\ UNCHANGED <<http, dispatches, sent>>
       ELSE AttemptOnceRequest(r, 0)
    /\ UNCHANGED <<config, enabled, delays, resp, rs>>

\* OssClientImpl::MakeRequest, up to the first dispatch
MakeRequest(r) ==
    /\ pc = "idle"
    /\ r.op \in ValidatingOps
    /\ req' = r
    /\ attempt' = 0
    /\ LET ret == validate(r) IN
       IF ret # "OK"
       THEN /\ outcome' = Failure(OssError(<<"ValidateError">>, Text(validateMessage(ret))))
            /\ pc' = "done"
            /\ UNCHANGED <<http, dispatches, sent>>
       ELSE AttemptOnceRequest(r, 0)
    /\ UNCHANGED <<config, enabled, delays, resp, rs>>

\* GetObjectByUrl / PutObjectByUrl: AttemptRequest without validation
RequestByUrl(r) ==
    /\ pc = "idle"
    /\ r.op \in UrlOps
    /\ req' = r
    /\ attempt' = 0
    /\ AttemptOnceRequest(r, 0)
    /\ UNCHANGED <<config, enabled, delays, resp, rs>>

\* The transport returns: hasResponseError, then success, a retry or failure.
RespondWith(response) ==
    /\ attempt <= MaxAttempt
    /\ LET checked == hasResponseError(response) IN
       /\ resp' = [kind |-> "response", received |-> response,
                   checked |-> checked.response, error |-> checked.error]
       /\ IF ~checked.error
          THEN /\ outcome' = Success(buildResult(checked.response))
               /\ pc' = "done"
               /\ UNCHANGED <<http, attempt, dispatches, delays, sent>>
          ELSE LET error == Client_buildError(checked.response) IN
               IF shouldRetry(error, attempt) /\ (req.payload = <<>> \/ req.seekable)
               THEN /\ delays' = Append(delays, calcDealyTimeMs(error, attempt))
                    /\ attempt' = attempt + 1
                    /\ AttemptOnceRequest(req, attempt + 1)
               ELSE /\ outcome' \in MakeRequestError(error)
                    /\ pc' = IF ConstructsStringFromNull(error) THEN "aborted" ELSE "done"
                    /\ UNCHANGED <<http, attempt, dispatches, delays, sent>>
    /\ UNCHANGED <<config, enabled, req, rs>>

Respond ==
    /\ pc = "inflight"
    /\ \E response \in Responses(http) : RespondWith(response)

\* the call returns its outcome; the client is ready for the next call
Return ==
    /\ pc = "done"
    /\ pc' = "idle"
    /\ req' = NoReq
    /\ http' = NoHttp
    /\ resp' = NoResp
    /\ outcome' = NoOutcome
    /\ attempt' = 0
    /\ dispatches' = 0
    /\ delays' = <<>>
    /\ sent' = 0
    /\ UNCHANGED <<config, enabled, rs>>

\* GeneratePresignedUrl that lets the caller's parameters replace Expires,
\* OSSAccessKeyId and Signature
GeneratePresignedUrl_CallerParametersLast(g) ==
    /\ pc = "idle"
    /\ req' = g
    /\ IF ~IsValidBucketName(g.bucket) \/ ~IsValidObjectKey(g.key)
       THEN outcome' = Failure(OssError(<<"ValidateError">>, Text(<<"The Bucket or Key is invalid.">>)))
       ELSE LET headers == g.specialHeaders
                credentials == config.credentials
                p0 == IF credentials.SessionToken # <<>>
                      THEN setHeader(EmptyHeaders, "security-token", credentials.SessionToken)
                      ELSE EmptyHeaders
                parameters == [n \in (DOMAIN p0) \cup (DOMAIN g.specialParameters) |->
                                 IF n \in DOMAIN g.specialParameters
                                 THEN g.specialParameters[n] ELSE p0[n]]
                resource == <<"/">> \o g.bucket \o <<"/">> \o g.key
                date == Header(headers, "Expires")
                canonical == CanonicalString(g.method, resource, date, headers, parameters)
                signature == generate(canonical, credentials.AccessKeySecret)
                p1 == setHeader(EmptyHeaders, "Expires", date)
                p2 == setHeader(p1, "OSSAccessKeyId", credentials.AccessKeyId)
                p3 == setHeader(p2, "Signature", signature)
                p4 == [n \in (DOMAIN p3) \cup (DOMAIN parameters) |->
                         IF n \in DOMAIN parameters THEN parameters[n] ELSE p3[n]]
            IN outcome' = Success([url |-> CombineHostString(config.endpoint, g.bucket, config.isCname)
                                            \o CombinePathString(config.endpoint, g.bucket, g.key)
                                            \o <<"?">> \o CombineQueryString(p4),
                                   parameters |-> p4,
                                   canonical |-> canonical])
    /\ pc' = "done"
    /\ UNCHANGED <<config, enabled, http, attempt, dispatches, delays, resp, sent, rs>>

\* OssClientImpl::GeneratePresignedUrl
GeneratePresignedUrl(g) ==
    /\ pc = "idle"
    /\ req' = g
    /\ IF ~IsValidBucketName(g.bucket) \/ ~IsValidObjectKey(g.key)
       THEN outcome' = Failure(OssError(<<"ValidateError">>, Text(<<"The Bucket or Key is invalid.">>)))
       ELSE LET headers == g.specialHeaders
                credentials == config.credentials
                p0 == IF credentials.SessionToken # <<>>
                      THEN setHeader(EmptyHeaders, "security-token", credentials.SessionToken)
                      ELSE EmptyHeaders
                parameters == [n \in (DOMAIN p0) \cup (DOMAIN g.specialParameters) |->
                                 IF n \in DOMAIN g.specialParameters
                                 THEN g.specialParameters[n] ELSE p0[n]]
                resource == <<"/">> \o g.bucket \o <<"/">> \o g.key
                date == Header(headers, "Expires")
                canonical == CanonicalString(g.method, resource, date, headers, parameters)
                signature == generate(canonical, credentials.AccessKeySecret)
                p1 == setHeader(parameters, "Expires", date)
                p2 == setHeader(p1, "OSSAccessKeyId", credentials.AccessKeyId)
                p3 == setHeader(p2, "Signature", signature)
            IN outcome' = Success([url |-> CombineHostString(config.endpoint, g.bucket, config.isCname)
                                            \o CombinePathString(config.endpoint, g.bucket, g.key)
                                            \o <<"?">> \o CombineQueryString(p3),
                                   parameters |-> p3,
                                   canonical |-> canonical])
    /\ pc' = "done"
    /\ UNCHANGED <<config, enabled, http, attempt, dispatches, delays, resp, sent, rs>>

DisableRequest ==
    /\ pc \in {"idle", "inflight", "done"}
    /\ enabled
    /\ enabled' = FALSE
    /\ UNCHANGED <<config, pc, req, http, attempt, dispatches, delays, resp, sent, outcome, rs>>

EnableRequest ==
    /\ pc \in {"idle", "inflight", "done"}
    /\ ~enabled
    /\ enabled' = TRUE
    /\ UNCHANGED <<config, pc, req, http, attempt, dispatches, delays, resp, sent, outcome, rs>>

Init ==
    /\ config \in {Config(crc, FALSE, token) : crc \in BOOLEAN, token \in {<<>>, <<"token">>}}
    /\ enabled = TRUE
    /\ pc = "idle"
    /\ req = NoReq
    /\ http = NoHttp
    /\ attempt = 0
    /\ dispatches = 0
    /\ delays = <<>>
    /\ resp = NoResp
    /\ sent = 0
    /\ outcome = NoOutcome
    /\ rs = NoRs

Next ==
    \/ \E r \in PipelineRequests : MakeRequest(r)
    \/ \E r \in PipelineRequests : RequestByUrl(r)
    \/ \E g \in PresignRequests : GeneratePresignedUrl(g)
    \/ Respond
    \/ Return
    \/ DisableRequest
    \/ EnableRequest

Spec == Init /\ [][Next]_vars

-----------------------------------------------------------------------------
(* buildHttpRequest on its own: every flag set, method, caller-supplied        *)
(* header set and payload, built once and handed to the transport once.       *)

Methods == {"GET", "PUT", "POST", "DELETE", "HEAD"}

CallerHeaders ==
    {WithOpt(WithOpt(WithOpt(EmptyHeaders, CONTENT_LENGTH, cl), CONTENT_MD5, md5), RANGE, rg) :
        cl \in {None, Opt(<<"1">>), Opt(<<"5">>)},
        md5 \in {None, Opt(<<"caller-md5">>)},
        rg \in {None, Opt(<<"bytes=0-1">>)}}

BuildRequests ==
    {Request("OssObjectRequest", GoodBucket, <<"k">>, f, h, p, m, 0, TRUE) :
        f \in SUBSET {FLAG_CONTENTMD5, FLAG_CHECK_CRC64}, h \in CallerHeaders,
        p \in Payloads, m \in Methods}
    \cup
    {Request("ByUrlRequest", <<>>, <<>>, f \cup {FLAG_PARAM_IN_PATH}, h, p, m, 0, TRUE) :
        f \in SUBSET {FLAG_CONTENTMD5, FLAG_CHECK_CRC64}, h \in CallerHeaders,
        p \in Payloads, m \in {"GET", "PUT"}}

InitBuild ==
    /\ config \in {Config(crc, FALSE, <<>>) : crc \in BOOLEAN}
    /\ enabled = TRUE
    /\ pc = "new"
    /\ req \in BuildRequests
    /\ http = NoHttp
    /\ attempt = 0
    /\ dispatches = 0
    /\ delays = <<>>
    /\ resp = NoResp
    /\ sent = 0
    /\ outcome = NoOutcome
    /\ rs = NoRs

BuildStep ==
    /\ pc = "new"
    /\ http' = buildHttpRequest(config.endpoint, req, req.method, 0)
    /\ pc' = "built"
    /\ UNCHANGED <<config, enabled, req, attempt, dispatches, delays, resp, sent, outcome, rs>>

SendStep ==
    /\ pc = "built"
    /\ sent' \in TransportRead(http)
    /\ dispatches' = dispatches + 1
    /\ pc' = "sent"
    /\ UNCHANGED <<config, enabled, req, http, attempt, delays, resp, outcome, rs>>

NextBuild == BuildStep \/ SendStep

SpecBuild == InitBuild /\ [][NextBuild]_vars

-----------------------------------------------------------------------------
(* The retry strategy on its own: for one error status, shouldRetry and       *)
(* calcDealyTimeMs evaluated for attempt 0, 1, 2, ...                          *)

RetryStatuses ==
    {0, 200, 301, 404, 499, 500, 503, 598, 599, 600,
     ERROR_CRC_INCONSISTENT, ERROR_REQUEST_DISABLE}
    \cup {ERROR_CURL_BASE + c : c \in 0..60}

ErrorOfStatus(status) ==
    [Status |-> status, Code |-> <<"code">>, Message |-> NoText, Headers |-> EmptyHeaders]

InitRetry ==
    /\ config = Config(TRUE, FALSE, <<>>)
    /\ enabled = TRUE
    /\ pc = "retry"
    /\ req = NoReq
    /\ http = NoHttp
    /\ attempt = 0
    /\ dispatches = 0
    /\ delays = <<>>
    /\ resp = NoResp
    /\ sent = 0
    /\ outcome = NoOutcome
    /\ rs \in {[kind |-> "retry", status |-> st, attempt |-> 0, should |-> <<>>, delays |-> <<>>] :
                 st \in RetryStatuses}

EvaluateRetry ==
    /\ pc = "retry"
    /\ rs.attempt <= MaxAttempt
    /\ rs' = [rs EXCEPT
                !.should = Append(@, shouldRetry(ErrorOfStatus(rs.status), rs.attempt)),
                !.delays = Append(@, calcDealyTimeMs(ErrorOfStatus(rs.status), rs.attempt)),
                !.attempt = @ + 1]
    /\ UNCHANGED <<config, enabled, pc, req, http, attempt, dispatches, delays, resp, sent, outcome>>

NextRetry == EvaluateRetry

SpecRetry == InitRetry /\ [][NextRetry]_vars

-----------------------------------------------------------------------------
(* Properties *)

ValidationFails(r) ==
    IF r.op \in ValidatingOps THEN validate(r) # "OK"
    ELSE IF r.op = "GeneratePresignedUrlRequest"
    THEN ~IsValidBucketName(r.bucket) \/ ~IsValidObjectKey(r.key)
    ELSE FALSE

\* C1: a call of a validating operation (MakeRequest-based, or
\* GeneratePresignedUrl) whose request fails validation returns a Failure with
\* code "ValidateError"; no HttpRequest was built for it, the transport was
\* not invoked and no response was processed.
C1_ValidateErrorBeforeTransport ==
    (pc = "done" /\ ValidationFails(req)) =>
        /\ outcome.kind = "failure"
        /\ outcome.error.Code = <<"ValidateError">>
        /\ dispatches = 0
        /\ http = NoHttp
        /\ resp = NoResp

\* the bucket "AB" is rejected by MakeRequest without a dispatch
C1_Witness ==
    /\ pc = "done"
    /\ req.op = "OssBucketRequest"
    /\ req.bucket = <<"A", "B">>
    /\ outcome.kind = "failure"
    /\ dispatches = 0

\* the call ended on the disabled client's error
EndedDisabled ==
    /\ pc = "done"
    /\ outcome.kind = "failure"
    /\ outcome.error.Code = DisabledError.Code

\* C3: one call dispatches at most maxRetries + 1 times; the attempt counter
\* starts at 0 and grows by one per retry (one delay slept per retry), a
\* dispatch beyond the first happens only after a retry, and a call that has
\* ended did not dispatch after its last response (a retry the disabled
\* client cut short counted an attempt without a dispatch).
C3_DispatchBound ==
    /\ dispatches <= maxRetries + 1
    /\ attempt <= maxRetries
    /\ dispatches <= attempt + 1
    /\ Len(delays) = attempt
    /\ (pc = "inflight" => dispatches = attempt + 1)
    /\ (pc = "done" /\ resp # NoResp =>
          dispatches = (IF EndedDisabled THEN attempt ELSE attempt + 1))

\* 503, 503, 200: Success with the attempt counter at 2 after three dispatches
C3_Witness ==
    /\ pc = "done"
    /\ outcome.kind = "success"
    /\ attempt = 2
    /\ dispatches = 3
    /\ delays = <<calcDealyTimeMs(ErrorOfStatus(503), 0), calcDealyTimeMs(ErrorOfStatus(503), 1)>>

CrcMismatch(r) ==
    /\ ~BASE_hasResponseError(r)
    /\ r.request.checkCrc64
    /\ hasHeader(r.headers, X_OSS_HASH_CRC64)
    /\ r.request.crc64Result # strtoull(r.headers[X_OSS_HASH_CRC64])

\* C5: a response that passes the base status check, whose request had CRC64
\* checking on, that carries x-oss-hash-crc64ecma, and whose client CRC64
\* differs from the server's, ends the call in a Failure with status
\* ERROR_CRC_INCONSISTENT and a message holding the expected hash, the
\* calculated hash, the transferred bytes and the request id; any other
\* response keeps its status and message.
C5_CrcCheck ==
    resp # NoResp =>
        IF CrcMismatch(resp.received)
        THEN /\ resp.error
             /\ resp.checked.status = ERROR_CRC_INCONSISTENT
             /\ Contains(resp.checked.statusMsg.text,
                         <<"Crc64 validation failed. Expected hash:">> \o to_string(strtoull(resp.received.headers[X_OSS_HASH_CRC64])))
             /\ Contains(resp.checked.statusMsg.text,
                         <<" not equal to calculated hash:">> \o to_string(resp.received.request.crc64Result))
             /\ Contains(resp.checked.statusMsg.text,
                         <<". Transferd bytes:">> \o to_string(resp.received.request.transferedBytes))
             /\ Contains(resp.checked.statusMsg.text,
                         <<". RequestId:">> \o Header(resp.received.headers, X_OSS_REQUEST_ID))
             /\ pc = "done"
             /\ outcome.kind = "failure"
             /\ outcome.error.Message = resp.checked.statusMsg
        ELSE /\ resp.checked.status = resp.received.status
             /\ resp.checked.statusMsg = resp.received.statusMsg

\* a mismatch against a server value of 7 with a request id in the headers
C5_Witness ==
    /\ resp # NoResp
    /\ CrcMismatch(resp.received)
    /\ strtoull(resp.received.headers[X_OSS_HASH_CRC64]) = 7
    /\ hasHeader(resp.received.headers, X_OSS_REQUEST_ID)
    /\ outcome.kind = "failure"

\* C7: a response whose status hasResponseError set to ERROR_CRC_INCONSISTENT
\* is not retried: shouldRetry is false for its error at every attempt count,
\* and the call ends in a Failure with no further dispatch.
C7_CrcNotRetried ==
    (resp # NoResp /\ resp.checked.status = ERROR_CRC_INCONSISTENT) =>
        /\ \A n \in 0..MaxAttempt : ~shouldRetry(Client_buildError(resp.checked), n)
        /\ pc = "done"
        /\ outcome.kind = "failure"
        /\ dispatches = attempt + 1

\* a CRC64 mismatch on the first attempt of a call
C7_Witness ==
    /\ resp # NoResp
    /\ resp.received.status = 200
    /\ resp.checked.status = ERROR_CRC_INCONSISTENT
    /\ attempt = 0
    /\ pc = "done"

-----------------------------------------------------------------------------
(* Properties of the retry strategy, under SpecRetry *)

\* connect-failed, partial-file, write-error, timed-out, got-nothing,
\* send-error, recv-error
TransportErrorList ==
    {ERROR_CURL_BASE + 7, ERROR_CURL_BASE + 18, ERROR_CURL_BASE + 23, ERROR_CURL_BASE + 28,
     ERROR_CURL_BASE + 52, ERROR_CURL_BASE + 55, ERROR_CURL_BASE + 56}

\* C2: shouldRetry(error, attempt) is true exactly when attempt < maxRetries
\* and the status is in [500, 599) or is one of the seven transport errors.
C2_ShouldRetryIff ==
    rs # NoRs =>
        \A i \in 1..Len(rs.should) :
            rs.should[i] <=>
                /\ (i - 1) < maxRetries
                /\ \/ (rs.status >= 500 /\ rs.status < 599)
                   \/ rs.status \in TransportErrorList

\* a timed-out transport error: retried at attempt 2, not at attempt 3
C2_Witness ==
    /\ rs # NoRs
    /\ rs.status = ERROR_CURL_BASE + 28
    /\ Len(rs.should) >= maxRetries + 1
    /\ rs.should[maxRetries]
    /\ ~rs.should[maxRetries + 1]

-----------------------------------------------------------------------------
(* Properties of buildHttpRequest, under SpecBuild *)

Built == pc \in {"built", "sent"}

\* C6: CRC64 checking is on in the built request exactly when the request
\* has CHECK_CRC64, the configuration has enableCrc64 and the built request
\* carries no Range header.
C6_CheckCrc64Iff ==
    Built =>
        (http.checkCrc64 <=>
            /\ FLAG_CHECK_CRC64 \in req.flags
            /\ config.enableCrc64
            /\ ~hasHeader(http.headers, RANGE))

\* flag and configuration are on, and a Range header keeps the check off
C6_Witness ==
    /\ Built
    /\ FLAG_CHECK_CRC64 \in req.flags
    /\ config.enableCrc64
    /\ hasHeader(http.headers, RANGE)
    /\ ~http.checkCrc64

\* C8: after the build, a request without body has Content-Length "0" when
\* the method is GET or POST and no Content-Length otherwise; a request with
\* a body has a Content-Length.
C8_ContentLengthByBody ==
    Built =>
        IF req.payload = <<>>
        THEN IF req.method \in {"GET", "POST"}
             THEN hasHeader(http.headers, CONTENT_LENGTH) /\ http.headers[CONTENT_LENGTH] = <<"0">>
             ELSE ~hasHeader(http.headers, CONTENT_LENGTH)
        ELSE hasHeader(http.headers, CONTENT_LENGTH)

\* a body-less DELETE whose caller supplied a Content-Length: it is stripped
C8_Witness ==
    /\ Built
    /\ req.payload = <<>>
    /\ req.method = "DELETE"
    /\ hasHeader(req.specialHeaders, CONTENT_LENGTH)
    /\ ~hasHeader(http.headers, CONTENT_LENGTH)

\* C9, as claimed: for a non-empty body the Content-Length sent is the
\* number of bytes the transport read, whoever set the header.
C9_LengthAgreesAlways ==
    (pc = "sent" /\ req.payload # <<>>) =>
        /\ hasHeader(http.headers, CONTENT_LENGTH)
        /\ http.headers[CONTENT_LENGTH] = to_string(sent)

\* C9, amended: when the caller supplied no Content-Length, the
\* Content-Length sent for a non-empty body is the number of bytes the
\* transport read, also when Content-MD5 was computed over the stream first;
\* a caller-supplied Content-Length is sent as the caller gave it.
C9_LengthAgreesWhenComputed ==
    (pc = "sent" /\ req.payload # <<>>) =>
        /\ hasHeader(http.headers, CONTENT_LENGTH)
        /\ IF hasHeader(req.specialHeaders, CONTENT_LENGTH)
           THEN http.headers[CONTENT_LENGTH] = req.specialHeaders[CONTENT_LENGTH]
           ELSE /\ http.headers[CONTENT_LENGTH] = to_string(sent)
                /\ sent = Len(req.payload)

\* a two-byte body, no caller Content-Length, Content-MD5 computed, sent
C9_Witness ==
    /\ pc = "sent"
    /\ Len(req.payload) = 2
    /\ ~hasHeader(req.specialHeaders, CONTENT_LENGTH)
    /\ ~hasHeader(req.specialHeaders, CONTENT_MD5)
    /\ FLAG_CONTENTMD5 \in req.flags
    /\ hasHeader(http.headers, CONTENT_MD5)
    /\ sent = 2

\* C10, as claimed: with the CONTENT_MD5 flag and no caller-supplied
\* Content-MD5, the built request carries a computed Content-MD5.
C10_Md5WheneverFlagged ==
    (Built /\ FLAG_CONTENTMD5 \in req.flags /\ ~hasHeader(req.specialHeaders, CONTENT_MD5)) =>
        hasHeader(http.headers, CONTENT_MD5)

\* C10, amended: with the CONTENT_MD5 flag, no caller-supplied Content-MD5
\* and a body, the built request carries the Content-MD5 computed over the
\* body; without a body no Content-MD5 is added.
C10_Md5WhenFlaggedWithBody ==
    (Built /\ FLAG_CONTENTMD5 \in req.flags /\ ~hasHeader(req.specialHeaders, CONTENT_MD5)) =>
        IF req.payload # <<>>
        THEN /\ hasHeader(http.headers, CONTENT_MD5)
             /\ http.headers[CONTENT_MD5] = ComputeContentMD5(Body(req))
        ELSE ~hasHeader(http.headers, CONTENT_MD5)

\* a flagged request with a one-byte body got its digest
C10_Witness ==
    /\ pc = "built"
    /\ FLAG_CONTENTMD5 \in req.flags
    /\ ~hasHeader(req.specialHeaders, CONTENT_MD5)
    /\ Len(req.payload) = 1
    /\ hasHeader(http.headers, CONTENT_MD5)


-----------------------------------------------------------------------------
(* buildHttpRequest for signing and URL composition: every combination of     *)
(* bucket, key, PARAM_IN_PATH, caller headers, parameters, session token and  *)
(* CNAME setting, built once.                                                  *)

TOKEN_HEADER == "x-oss-security-token"

SignHeaders ==
    {EmptyHeaders,
     setHeader(EmptyHeaders, "x-oss-meta-a", <<"m">>),
     setHeader(EmptyHeaders, AUTHORIZATION, <<"caller-auth">>),
     setHeader(EmptyHeaders, TOKEN_HEADER, <<"caller-token">>)}

SignParameters ==
    {EmptyHeaders,
     setHeader(EmptyHeaders, "acl", <<>>),
     setHeader(EmptyHeaders, "prefix", <<"p", "/", "q">>),
     setHeader(setHeader(EmptyHeaders, "acl", <<>>), "prefix", <<"p">>),
     setHeader(setHeader(EmptyHeaders, "uploadId", <<"u", " ", "1">>), "uploads", <<>>)}

SignRequests ==
    {[Request("OssRequest", b, k, f, h, <<>>, "GET", 0, TRUE) EXCEPT !.specialParameters = p] :
        b \in {<<>>, GoodBucket}, k \in {<<>>, <<"k">>},
        f \in {{}, {FLAG_PARAM_IN_PATH}}, h \in SignHeaders, p \in SignParameters}

InitSign ==
    /\ config \in {Config(TRUE, cname, token) : cname \in BOOLEAN, token \in {<<>>, <<"token">>}}
    /\ enabled = TRUE
    /\ pc = "new"
    /\ req \in SignRequests
    /\ http = NoHttp
    /\ attempt = 0
    /\ dispatches = 0
    /\ delays = <<>>
    /\ resp = NoResp
    /\ sent = 0
    /\ outcome = NoOutcome
    /\ rs = NoRs

SpecSign == InitSign /\ [][NextBuild]_vars

-----------------------------------------------------------------------------
(* Properties of signing and URL composition, under SpecSign *)

SignedRequest == Built /\ FLAG_PARAM_IN_PATH \notin req.flags

\* C11: a request with PARAM_IN_PATH is built without a call of
\* getCredentials, with no Authorization header added and with its own path
\* as the URL; every other request is built with one call of getCredentials,
\* the Authorization header "OSS " accessKeyId ":" signature, and a URL
\* composed from endpoint, bucket, key and parameters.
C11_UrlRequestNeverSigned ==
    Built =>
        IF FLAG_PARAM_IN_PATH \in req.flags
        THEN /\ http.getCredentials = 0
             /\ http.signed = <<>>
             /\ Header(http.headers, AUTHORIZATION) = Header(Headers(req), AUTHORIZATION)
             /\ hasHeader(http.headers, AUTHORIZATION) <=> hasHeader(Headers(req), AUTHORIZATION)
             /\ ~hasHeader(http.headers, TOKEN_HEADER) \/ hasHeader(Headers(req), TOKEN_HEADER)
             /\ http.url = [kind |-> "verbatim", path |-> req.path]
        ELSE /\ http.getCredentials = 1
             /\ hasHeader(http.headers, AUTHORIZATION)
             /\ http.headers[AUTHORIZATION] =
                    <<"OSS ">> \o config.credentials.AccessKeyId \o <<":">>
                    \o generate(http.signed, config.credentials.AccessKeySecret)
             /\ http.url.kind = "composed"
             /\ http.url.host = CombineHostString(config.endpoint, req.bucket, config.isCname)
             /\ http.url.path = CombinePathString(config.endpoint, req.bucket, req.key)
             /\ (Parameters(req) = EmptyHeaders <=> http.url.query = <<>>)

\* a request with PARAM_IN_PATH built by a client whose credentials carry a
\* session token: no credentials read, no header added, the path verbatim
C11_Witness ==
    /\ Built
    /\ FLAG_PARAM_IN_PATH \in req.flags
    /\ config.credentials.SessionToken # <<>>
    /\ Headers(req) = setHeader(EmptyHeaders, CONTENT_TYPE, <<"application/xml">>)
    /\ http.getCredentials = 0
    /\ ~hasHeader(http.headers, AUTHORIZATION)
    /\ http.url.kind = "verbatim"

\* C12: in a signed request x-oss-security-token is the session token when
\* the credentials carry one, and is left as the caller gave it when they do
\* not; the canonical string that was signed is the canonical string of the
\* headers the request ends up with (so the token header, every x-oss-
\* header, Date, Content-MD5 and Content-Type are as signed), and it holds
\* the token header.
C12_TokenSignedAsSent ==
    SignedRequest =>
        LET token == config.credentials.SessionToken IN
        /\ token # <<>> =>
              /\ hasHeader(http.headers, TOKEN_HEADER)
              /\ http.headers[TOKEN_HEADER] = token
              /\ Contains(http.signed, <<TOKEN_HEADER, ":">> \o token \o <<"\n">>)
        /\ token = <<>> =>
              /\ hasHeader(http.headers, TOKEN_HEADER) <=> hasHeader(Headers(req), TOKEN_HEADER)
              /\ Header(http.headers, TOKEN_HEADER) = Header(Headers(req), TOKEN_HEADER)
        /\ http.signed = CanonicalString(http.method, http.resource, Header(http.headers, DATE),
                                         http.headers, Parameters(req))

\* credentials with a session token, and a caller who gave another token header
C12_Witness ==
    /\ SignedRequest
    /\ config.credentials.SessionToken = <<"token">>
    /\ Header(Headers(req), TOKEN_HEADER) = <<"caller-token">>
    /\ http.headers[TOKEN_HEADER] = <<"token">>

\* C13, as claimed: the canonical resource is "/" bucket "/" key when both
\* are non-empty, "/" bucket "/" when only the bucket is, and "/" otherwise.
C13_ResourceSlashOtherwise ==
    SignedRequest =>
        http.resource =
            IF req.bucket # <<>> /\ req.key # <<>> THEN <<"/">> \o req.bucket \o <<"/">> \o req.key
            ELSE IF req.bucket # <<>> THEN <<"/">> \o req.bucket \o <<"/">>
            ELSE <<"/">>

\* C13, amended: as claimed, except that an empty bucket with a non-empty key
\* gives "/" key.
C13_ResourceKeyWithoutBucket ==
    SignedRequest =>
        http.resource =
            IF req.bucket # <<>> /\ req.key # <<>> THEN <<"/">> \o req.bucket \o <<"/">> \o req.key
            ELSE IF req.bucket # <<>> THEN <<"/">> \o req.bucket \o <<"/">>
            ELSE IF req.key # <<>> THEN <<"/">> \o req.key
            ELSE <<"/">>

\* an empty bucket with the key "k" is signed with the resource "/k"
C13_Witness ==
    /\ SignedRequest
    /\ req.bucket = <<>>
    /\ req.key = <<"k">>
    /\ http.resource = <<"/", "k">>

NonWhitelisted == "prefix"

RECURSIVE CountOf(_, _)
CountOf(s, x) ==
    IF s = <<>> THEN 0
    ELSE (IF Head(s) = x THEN 1 ELSE 0) + CountOf(Tail(s), x)

\* C14: the request that differs from the signed request by one more
\* parameter outside the sub-resource whitelist gets the same Authorization
\* header and another URL; every parameter is in the query, as encode(k)
\* when its value is empty and encode(k) "=" encode(v) otherwise, the terms
\* joined with "&".
C14_WhitelistAndQuery ==
    SignedRequest =>
        LET parameters == Parameters(req)
            query == <<"&">> \o http.url.query \o <<"&">>
        IN
        /\ NonWhitelisted \notin DOMAIN parameters =>
              LET more == [req EXCEPT !.specialParameters = setHeader(@, NonWhitelisted, <<"v">>)]
                  twin == buildHttpRequest(config.endpoint, more, more.method, 0)
              IN /\ twin.headers[AUTHORIZATION] = http.headers[AUTHORIZATION]
                 /\ twin.url # http.url
                 /\ Contains(twin.url.query, <<NonWhitelisted, "=", "v">>)
        /\ \A n \in DOMAIN parameters :
              Contains(query,
                       <<"&">> \o UrlEncode(<<n>>)
                       \o (IF parameters[n] = <<>> THEN <<>>
                           ELSE <<"=">> \o UrlEncode(parameters[n]))
                       \o <<"&">>)
        /\ parameters # EmptyHeaders =>
              CountOf(http.url.query, "&") = Cardinality(DOMAIN parameters) - 1
        /\ parameters = EmptyHeaders => http.url.query = <<>>

\* a sub-resource without value and a parameter outside the whitelist whose
\* value is encoded, both on the wire, the latter not in the signature
C14_Witness ==
    /\ SignedRequest
    /\ http.url.query = <<"acl", "&", "prefix", "=", "p">>
    /\ ~Contains(http.signed, <<"prefix">>)
    /\ Contains(http.signed, <<"?", "acl">>)


-----------------------------------------------------------------------------
(* Properties of error classification, under Spec *)

\* the call has ended on a failed response with an HTTP error status
EndedOnHttpError ==
    /\ pc \in {"done", "aborted"}
    /\ resp # NoResp
    /\ resp.error
    /\ resp.checked.status > 299 /\ resp.checked.status < 600
    /\ ~EndedDisabled

\* C15, as claimed: a failed response with a non-empty body that is not
\* parseable XML gives the error code "ParseXMLError".
C15_CodeExactlyParseXMLError ==
    (EndedOnHttpError /\ resp.checked.body.kind = "notxml") =>
        /\ outcome.kind = "failure"
        /\ outcome.error.Code = <<"ParseXMLError">>

\* C15, amended: a failed response with status in 300..599 and a non-empty
\* body that is not parseable XML gives the error code "ParseXMLError:"
\* followed by the number of the parser's error, and the name of that error
\* as the message.
C15_CodeParseXMLErrorWithId ==
    (EndedOnHttpError /\ resp.checked.body.kind = "notxml") =>
        /\ outcome.kind = "failure"
        /\ outcome.error.Code = <<"ParseXMLError:">> \o to_string(resp.checked.body.xml_err)
        /\ outcome.error.Message = Text(<<"ErrorIDToName">> \o to_string(resp.checked.body.xml_err))

\* a 404 whose body the parser rejects with error 7
C15_Witness ==
    /\ EndedOnHttpError
    /\ resp.checked.status = 404
    /\ resp.checked.body = NotXmlBody
    /\ outcome.kind = "failure"
    /\ outcome.error.Code = <<"ParseXMLError:", "7">>

\* C16: a well-formed XML error body whose root is not named exactly "Error"
\* gives the code "ParseXMLError" and the message "Xml format invalid, root
\* node name is not Error. the content is:\n" followed by the body.
C16_OnlyExactErrorRoot ==
    (EndedOnHttpError /\ resp.checked.body.kind = "xml" /\ resp.checked.body.root # ErrorName) =>
        /\ outcome.kind = "failure"
        /\ outcome.error.Code = <<"ParseXMLError">>
        /\ outcome.error.Message =
              [kind |-> "prefixed",
               prefix |-> "Xml format invalid, root node name is not Error. the content is:\n",
               content |-> resp.checked.body]

\* C17: an envelope with root Error gives an error whose code, message,
\* request id and host id are the texts of Code, Message, RequestId and
\* HostId, each empty when the child is missing or holds no text (the request
\* id then being the one of C18).
C17_EnvelopeFieldsRead ==
    (EndedOnHttpError /\ resp.checked.body.kind = "xml" /\ resp.checked.body.root = ErrorName) =>
        LET children == resp.checked.body.children IN
        /\ outcome.kind = "failure"
        /\ outcome.error.Code = ChildText(children, "Code")
        /\ outcome.error.Message = Text(ChildText(children, "Message"))
        /\ outcome.error.Host = ChildText(children, "HostId")
        /\ ChildText(children, "RequestId") # <<>> =>
              outcome.error.RequestId = ChildText(children, "RequestId")

\* the request id that classification took from the body of the response
RequestIdOfBody(r) ==
    IF /\ r.status > 299 /\ r.status < 600
       /\ r.body.kind = "xml"
       /\ RootIsError(r.body.root)
    THEN ChildText(r.body.children, "RequestId")
    ELSE <<>>

\* C18: the error buildError made of a failed response has the request id of
\* the envelope when that is not empty; otherwise it has the value of the
\* x-oss-request-id header when the response has one.
C18_RequestIdBackfill ==
    (pc = "done" /\ resp # NoResp /\ resp.error /\ outcome.kind = "failure"
        /\ ~EndedDisabled) =>
        IF RequestIdOfBody(resp.checked) # <<>>
        THEN outcome.error.RequestId = RequestIdOfBody(resp.checked)
        ELSE IF hasHeader(resp.checked.headers, X_OSS_REQUEST_ID)
        THEN outcome.error.RequestId = resp.checked.headers[X_OSS_REQUEST_ID]
        ELSE outcome.error.RequestId = <<>>

\* an envelope with its own request id, in a response that has the header too
C18_Witness ==
    /\ pc = "done"
    /\ resp # NoResp
    /\ resp.checked.body = ErrorEnvelope
    /\ Header(resp.checked.headers, X_OSS_REQUEST_ID) = <<"req-hdr">>
    /\ outcome.kind = "failure"
    /\ outcome.error.RequestId = <<"req-body">>

\* C19: every Failure carries a non-empty error code.
C19_FailureHasCode ==
    outcome.kind = "failure" => outcome.error.Code # <<>>


-----------------------------------------------------------------------------
(* The operations that wrap MakeRequest: each turns the outcome of            *)
(* MakeRequest into its own outcome, parsing the payload of a success.        *)

\* the operations whose result is constructed from the XML payload
CheckedApis ==
    {"ListBuckets", "ListObjects", "GetObjectAcl", "InitiateMultipartUpload",
     "CompleteMultipartUpload", "ListMultipartUploads", "ListParts"}

UncheckedApis == {"CopyObject", "UploadPartCopy"}

\* the operations whose result is taken from the response headers
HeaderApis == {"UploadPart"}

\* the operations that read named response headers with header.at(name)
AtHeaderApis == {"GetSymlink", "CreateSymlink"}

\* the names the operation passes to header.at
AtHeaders(api) ==
    CASE api = "GetSymlink" -> {"x-oss-symlink-target", "ETag"}
      [] api = "CreateSymlink" -> {"ETag"}
      [] OTHER -> {}

Apis == CheckedApis \cup UncheckedApis \cup HeaderApis \cup AtHeaderApis

\* the root element the result class of the operation looks for
ResultRoot(api) ==
    CASE api = "ListBuckets" -> <<"ListAllMyBucketsResult">>
      [] api = "ListObjects" -> <<"ListBucketResult">>
      [] api = "GetObjectAcl" -> <<"AccessControlPolicy">>
      [] api = "CopyObject" -> <<"CopyObjectResult">>
      [] api = "InitiateMultipartUpload" -> <<"InitiateMultipartUploadResult">>
      [] api = "UploadPartCopy" -> <<"CopyPartResult">>
      [] api = "CompleteMultipartUpload" -> <<"CompleteMultipartUploadResult">>
      [] api = "ListMultipartUploads" -> <<"ListMultipartUploadsResult">>
      [] api = "ListParts" -> <<"ListPartsResult">>
      [] OTHER -> <<>>

\* Result(payload) followed by ParseDone(): the payload parsed as XML with
\* the root of the operation's result
ParseDone(api, payload) == payload.kind = "xml" /\ payload.root = ResultRoot(api)

\* the OssError an operation returns when ParseDone() is false
ParseFailure(api) ==
    CASE api = "InitiateMultipartUpload" ->
            OssError(<<"InitiateMultipartUploadError">>,
                     Text(<<"Parsing InitiateMultipartUploadResult fail">>))
      [] api = "CompleteMultipartUpload" -> OssError(<<"CompleteMultipartUpload">>, NoText)
      [] api = "ListMultipartUploads" -> OssError(<<"ListMultipartUploads">>, Text(<<"Parse Error">>))
      [] api = "ListParts" -> OssError(<<"ListParts">>, Text(<<"Parse Error">>))
      [] api = "ListBuckets" -> OssError(<<"ParseXMLError">>, Text(<<"Parsing ListBuckets result fail.">>))
      [] OTHER -> OssError(<<"ParseXMLError">>, Text(<<"Parsing ListObject result fail.">>))

TypedResult(api, made) ==
    [api |-> api, requestId |-> made.result.RequestId,
     parsed |-> IF api \in HeaderApis \cup AtHeaderApis THEN TRUE
                ELSE ParseDone(api, made.result.payload)]

\* ListBuckets, CopyObject, InitiateMultipartUpload, ... : the operation's
\* outcome for the outcome made of MakeRequest
ApiOutcome(api, made) ==
    IF made.kind = "success"
    THEN IF api \in CheckedApis
         THEN IF ParseDone(api, made.result.payload)
              THEN Success(TypedResult(api, made))
              ELSE Failure(ParseFailure(api))
         ELSE IF api \in AtHeaderApis
         THEN \* std::map::at throws std::out_of_range for a name that is not there
              IF AtHeaders(api) \subseteq DOMAIN made.result.headerCollection
              THEN Success(TypedResult(api, made))
              ELSE Aborted("std::out_of_range")
         ELSE Success(TypedResult(api, made))
    ELSE Failure(made.error)

\* the payloads of a 200 response: the result of the operation, another
\* document, a body that is not XML, no body
ResultPayloads(api) ==
    {[kind |-> "xml", root |-> ResultRoot(api), children |-> EmptyHeaders],
     OtherRootEnvelope, NotXmlBody, NoText}

\* the outcomes MakeRequest can hand to the operation
MadeOutcomes(api) ==
    {Success(buildResult([status |-> 200, statusMsg |-> Text(<<"OK">>),
                          headers |-> WithOpt(WithOpt(WithOpt(EmptyHeaders,
                                          X_OSS_REQUEST_ID, r), "ETag", e),
                                          "x-oss-symlink-target", t),
                          body |-> b])) :
        b \in ResultPayloads(api), r \in {None, Opt(<<"req-hdr">>)},
        e \in {None, Opt(<<"etag">>)}, t \in {None, Opt(<<"target">>)}}
    \cup
    {Failure(OssError(<<"ValidateError">>, Text(validateMessage("ARG_ERROR_BUCKET_NAME")))),
     Failure(buildError([Status |-> 404, Code |-> <<"ServerError:", "4", "0", "4">>,
                         Message |-> ErrorEnvelope, Headers |-> EmptyHeaders]))}

InitResult ==
    /\ config = Config(TRUE, FALSE, <<>>)
    /\ enabled = TRUE
    /\ pc = "made"
    /\ req = NoReq
    /\ http = NoHttp
    /\ attempt = 0
    /\ dispatches = 0
    /\ delays = <<>>
    /\ resp = NoResp
    /\ sent = 0
    /\ outcome = NoOutcome
    /\ rs \in UNION {{[kind |-> "result", api |-> a, made |-> o] : o \in MadeOutcomes(a)} :
                       a \in Apis}

\* the operation returns
OperationReturn ==
    /\ pc = "made"
    /\ outcome' = ApiOutcome(rs.api, rs.made)
    /\ pc' = IF outcome'.kind = "abort" THEN "aborted" ELSE "returned"
    /\ UNCHANGED <<config, enabled, req, http, attempt, dispatches, delays, resp, sent, rs>>

NextResult == OperationReturn

SpecResult == InitResult /\ [][NextResult]_vars

-----------------------------------------------------------------------------
(* Properties of the operations, under SpecResult *)

\* the operations of C20: those that construct their result from the XML payload
XmlResultApis == CheckedApis \cup UncheckedApis

\* C20: an operation whose result is parsed from an XML payload returns, for
\* a successful exchange whose payload does not parse, a Failure with code
\* "ParseXMLError".
C20_ParseFailureIsParseXMLError ==
    (pc = "returned" /\ rs.api \in XmlResultApis /\ rs.made.kind = "success"
        /\ ~ParseDone(rs.api, rs.made.result.payload)) =>
        /\ outcome.kind = "failure"
        /\ outcome.error.Code = <<"ParseXMLError">>

\* C26: every operation returns an Outcome for every successful HTTP
\* response; GetSymlink and CreateSymlink return an Outcome, and do not end
\* abnormally, when the 2xx response lacks x-oss-symlink-target or ETag.
C26_OperationReturnsOutcome ==
    (pc # "made" /\ rs.made.kind = "success") =>
        /\ pc = "returned"
        /\ outcome.kind \in {"success", "failure"}

-----------------------------------------------------------------------------
(* Properties of GeneratePresignedUrl, under Spec *)

Presigned ==
    /\ pc = "done"
    /\ req.op = "GeneratePresignedUrlRequest"
    /\ outcome.kind = "success"

\* the tokens of line n of a text whose lines end with "\n"
RECURSIVE LineOf(_, _)
LineOf(s, n) ==
    IF s = <<>> THEN <<>>
    ELSE IF Head(s) = "\n"
         THEN IF n = 1 THEN <<>> ELSE LineOf(Tail(s), n - 1)
         ELSE IF n = 1 THEN <<Head(s)>> \o LineOf(Tail(s), 1) ELSE LineOf(Tail(s), n)

\* C21: whenever the credentials carry a non-empty session token, the
\* parameters GeneratePresignedUrl signs and emits hold security-token equal
\* to that session token, whatever parameters the caller supplied.
C21_SecurityTokenFromCredentials ==
    (Presigned /\ config.credentials.SessionToken # <<>>) =>
        LET token == config.credentials.SessionToken IN
        /\ hasHeader(outcome.result.parameters, "security-token")
        /\ outcome.result.parameters["security-token"] = token
        /\ Contains(outcome.result.canonical, <<"security-token", "=">> \o token)
        /\ Contains(outcome.result.url, <<"security-token", "=">> \o UrlEncode(token))

\* C22: the Expires of a generated URL is the text in the Date slot of the
\* signed canonical string; Expires, OSSAccessKeyId and Signature are set
\* after the signature is computed, so every generated URL carries them with
\* the expiry, the access key id and the computed signature as values, they
\* are no part of the signed string, and a caller's parameter of the same
\* name is replaced.
C22_ExpiresIdSignatureAfterSigning ==
    Presigned =>
        LET parameters == outcome.result.parameters
            canonical == outcome.result.canonical
            credentials == config.credentials
            query == <<"&">> \o outcome.result.url \o <<"&">>
        IN
        /\ {"Expires", "OSSAccessKeyId", "Signature"} \subseteq DOMAIN parameters
        /\ parameters["Expires"] = LineOf(canonical, 4)
        /\ parameters["Expires"] = Header(req.specialHeaders, "Expires")
        /\ parameters["OSSAccessKeyId"] = credentials.AccessKeyId
        /\ parameters["Signature"] = generate(canonical, credentials.AccessKeySecret)
        /\ Contains(outcome.result.url, <<"Expires", "=">> \o UrlEncode(parameters["Expires"]))
        /\ Contains(outcome.result.url, <<"OSSAccessKeyId", "=">> \o UrlEncode(credentials.AccessKeyId))
        /\ Contains(query, <<"Signature", "=">> \o UrlEncode(parameters["Signature"]) \o <<"&">>)
        /\ \A n \in {"Expires", "OSSAccessKeyId", "Signature"} :
              /\ ~Contains(canonical, <<"?", n>>)
              /\ ~Contains(canonical, <<"&", n>>)

\* a URL was generated for a caller who supplied a Signature parameter
C22_Witness ==
    /\ Presigned
    /\ hasHeader(req.specialParameters, "Signature")
    /\ outcome.result.parameters["Signature"] # req.specialParameters["Signature"]

-----------------------------------------------------------------------------
(* Properties of DisableRequest and EnableRequest, under Spec *)

\* a step in which an operation that executes a request is called
CallStarts ==
    /\ pc = "idle"
    /\ pc' # "idle"
    /\ req'.op \in ValidatingOps \cup UrlOps

\* a step in which the transport's response makes the retry loop go round:
\* the response is an error, the policy permits a retry and the body can be
\* sent again
RetryStarts ==
    /\ pc = "inflight"
    /\ enabled' = enabled
    /\ resp'.kind = "response"
    /\ resp'.error
    /\ shouldRetry(Client_buildError(resp'.checked), attempt)
    /\ (req.payload = <<>> \/ req.seekable)

\* the step ends the call with the disabled client's Failure, nothing sent
ShortCircuits ==
    /\ pc' = "done"
    /\ outcome'.kind = "failure"
    /\ outcome'.error.Code = <<"ClientDisabled">>
    /\ dispatches' = dispatches

Dispatches ==
    /\ pc' = "inflight"
    /\ dispatches' = dispatches + 1

\* C23 as claimed: after DisableRequest and until the next EnableRequest every
\* execute returns Failure(code="ClientDisabled") without dispatching, for a
\* new request and before each retry of a request in its retry loop; once
\* enabled again, requests are dispatched.
C23_EveryExecuteShortCircuits ==
    [][/\ CallStarts => IF enabled THEN Dispatches \/ ValidationFails(req')
                                    ELSE ShortCircuits
       /\ RetryStarts => IF enabled THEN Dispatches ELSE ShortCircuits
       /\ ~enabled => dispatches' \in {dispatches, 0}]_vars

\* C23, amended: while the client is disabled nothing is dispatched; every
\* execute of a request that passes validation, and every retry, ends the
\* call with Failure(code="ClientDisabled"); a request that fails validation
\* ends with ValidateError as it does on an enabled client; on an enabled
\* client valid requests and retries are dispatched.
C23_ValidExecuteShortCircuits ==
    [][/\ (CallStarts /\ ~ValidationFails(req')) =>
              IF enabled THEN Dispatches ELSE ShortCircuits
       /\ (CallStarts /\ ValidationFails(req')) =>
              /\ pc' = "done"
              /\ outcome'.kind = "failure"
              /\ outcome'.error.Code = <<"ValidateError">>
              /\ dispatches' = dispatches
       /\ RetryStarts => IF enabled THEN Dispatches ELSE ShortCircuits
       /\ ~enabled => dispatches' \in {dispatches, 0}]_vars

\* the client was disabled while a request was in its retry loop: the call
\* ended with ClientDisabled after two dispatches, the third attempt unsent
C23_Witness ==
    /\ EndedDisabled
    /\ ~enabled
    /\ attempt = 2
    /\ dispatches = 2

-----------------------------------------------------------------------------
(* Properties of the requests' validate, under Spec *)

\* the requests the validation is said to reject
Malformed(r) ==
    CASE r.op = "OssBucketRequest" -> ~IsValidBucketName(r.bucket)
      [] r.op = "OssObjectRequest" ->
            ~IsValidBucketName(r.bucket) \/ ~IsValidObjectKey(r.key)
      [] r.op = "CompleteMultipartUploadRequest" -> r.parts = 0 \/ r.uploadId = <<>>
      [] OTHER -> FALSE

\* C24: a bucket request with a malformed bucket name, an object request with
\* a malformed bucket name or key (the bucket error reported when both are
\* malformed) and a CompleteMultipartUpload with an empty part list or an
\* empty uploadId are rejected with ValidateError and without a network call.
C24_ValidationRejectsLocally ==
    (pc # "idle" /\ Malformed(req)) =>
        /\ pc = "done"
        /\ outcome.kind = "failure"
        /\ outcome.error.Code = <<"ValidateError">>
        /\ dispatches = 0
        /\ resp = NoResp
        /\ (req.op = "OssObjectRequest" /\ ~IsValidBucketName(req.bucket) =>
              outcome.error.Message = Text(validateMessage("ARG_ERROR_BUCKET_NAME")))

-----------------------------------------------------------------------------
(* The request state machine, under Spec.  New is pc = "idle"; Validated is   *)
(* validate's "OK"; Signed is the HttpRequest built for the attempt (a        *)
(* request with PARAM_IN_PATH passes this stage without a signature);         *)
(* InFlight is pc = "inflight"; RetryWait is the step that counts an attempt; *)
(* Succeeded and Failed are pc = "done" with the Outcome's kind.              *)

\* C25: every request follows New -> Validated -> Signed -> InFlight ->
\* (Succeeded | RetryWait -> Signed) | Failed: nothing is signed before
\* validation succeeded, nothing is dispatched before the request was signed
\* for that attempt, the only way back is InFlight -> RetryWait -> Signed and
\* it is taken only when the retry policy returned true, and a request ends
\* in exactly one of Succeeded and Failed.
C25_StateMachine ==
    [][/\ http' # NoHttp => ~ValidationFails(req')
       /\ (dispatches' # dispatches /\ dispatches' # 0) =>
              /\ dispatches' = dispatches + 1
              /\ pc' = "inflight"
              /\ Header(http'.headers, DATE) = ToGmtTime(attempt')
              /\ FLAG_PARAM_IN_PATH \notin req'.flags =>
                    /\ http'.signed # <<>>
                    /\ hasHeader(http'.headers, AUTHORIZATION)
       /\ (pc = "inflight" /\ attempt' # attempt) =>
              /\ attempt' = attempt + 1
              /\ resp'.error
              /\ shouldRetry(Client_buildError(resp'.checked), attempt)
       /\ pc = "idle" => pc' \in {"idle", "inflight", "done"}
       /\ pc = "inflight" => pc' \in {"inflight", "done"}
       /\ pc = "done" => pc' \in {"done", "idle"}
       /\ pc' = "done" => outcome'.kind \in {"success", "failure"}]_vars

====
